---- MODULE Spec2Model ----
(***************************************************************************)
(* Session and delegation gateway of the clinic frontend: the cookie jar   *)
(* (Credential Store), the session lifecycle route handlers and the        *)
(* request forwarder.  Time is counted in minutes.  A cookie is a value    *)
(* with an Expires instant; the browser sends it only before that instant. *)
(* A handler reads the cookies of its request when the request starts and  *)
(* its Set-Cookie headers reach the jar when its response arrives.         *)
(***************************************************************************)
EXTENDS Integers, Sequences, FiniteSets, TLC

\* ---- bounds of the model ----
MaxOpTime == 5
MaxInFlight == 1

\* ---- lifetimes set by the handlers, in minutes ----
AccessMinutes == 30
RefreshMinutes == 60 * 24 * 7
ClinicMinutes == 60 * 24
SupportFallbackMinutes == 15

\* ---- values ----
Keys == {"accessToken", "refreshToken", "clinicSlug", "hqRole",
         "supportToken", "supportClinicSlug", "supportExpiresAt"}
SupportKeys == {"supportToken", "supportClinicSlug", "supportExpiresAt"}

Val(k, u, e) == [k |-> k, u |-> u, e |-> e]
NoVal == Val("none", "", 0)
Undefined == Val("undefined", "", 0)
EmptyString == Val("string", "", 0)
Str(s) == Val("string", s, 0)
AccessOf(u) == Val("access", u, 0)
RefreshOf(u) == Val("refresh", u, 0)
\* a support token, granted to the bearer of access token a, valid until e
SupportOf(a, e) == Val("support", a.u, e)
Instant(e) == Val("instant", "", e)

\* JavaScript truthiness of a value read from a payload, a body or a cookie
Truthy(v) == v.k \notin {"none", "undefined"} /\ ~(v.k = "string" /\ v.u = "")

Users == {"hq", "clinic"}
Slugs == {"acme", "other"}
ExpiresOffsets == {5, 40}

NoCookie == [val |-> NoVal, exp |-> 0]
\* a cookie that has expired: the browser no longer sends it
Expired == [val |-> Val("expired", "", 0), exp |-> 0]

\* ---- state ----
\* jar: the cookies; now: the clock; inflight: the requests waiting for the
\* backend; last: the step just taken; support: the support context of the
\* browser page
VARIABLES jar, now, inflight, last, support
vars == <<jar, now, inflight, last, support>>

\* ---- the cookie store ----
\* ResponseCookies.set: undefined is written as the empty string; a cookie
\* whose Expires is not in the future is dropped by the browser.
SetCookie(j, k, v, exp, t) ==
  [j EXCEPT ![k] = IF exp > t
                   THEN [val |-> IF v.k = "undefined" THEN EmptyString ELSE v, exp |-> exp]
                   ELSE NoCookie]
DeleteCookie(j, k) == [j EXCEPT ![k] = NoCookie]
\* cookieStore.get(k): the cookie object, present while it has not expired
HasCookie(j, k, t) == j[k].exp > t
\* cookieStore.get(k)?.value
CookieValue(j, k, t) == IF HasCookie(j, k, t) THEN j[k].val ELSE NoVal

\* faulty variant: the clinic and the expiry of the grant are left behind
DeleteSupport_TokenOnly(j) == DeleteCookie(j, "supportToken")
DeleteSupport(j) ==
  DeleteCookie(DeleteCookie(DeleteCookie(j, "supportToken"), "supportClinicSlug"), "supportExpiresAt")

\* ---- what the backend answers to a call of the gateway ----
\* transport: "ok", "netfail" (fetch rejects) or "badjson" (the body is not JSON);
\* status and ok: the HTTP status and the payload's ok flag; the rest: payload.data
Answer(transport, status, ok, access, refresh, hq_role, support_token, expires_at) ==
  [transport |-> transport, status |-> status, ok |-> ok, access |-> access,
   refresh |-> refresh, hq_role |-> hq_role, support_token |-> support_token,
   expires_at |-> expires_at]
NoAnswer == Answer("none", 0, FALSE, Undefined, Undefined, Undefined, Undefined, Undefined)
Failure(transport, status) ==
  Answer(transport, status, FALSE, Undefined, Undefined, Undefined, Undefined, Undefined)
\* response.ok
HttpOk(a) == a.status >= 200 /\ a.status <= 299

\* ---- HTTP messages of the forwarder ----
\* a Content-Type is the sequence of the parts of its value; no header is <<>>
NoHeader == <<>>
Json == <<"application/json">>
JsonUtf8 == <<"application/json", "; charset=utf-8">>
FormUrlEncoded == <<"application/x-www-form-urlencoded">>
\* a request: its method, query string, Content-Type, body (Undefined: none)
\* and, downstream, its path and bearer credential
HttpRequest(method, path, search, contentType, body, bearer) ==
  [method |-> method, path |-> path, search |-> search, contentType |-> contentType,
   body |-> body, bearer |-> bearer]
HttpResponse(status, contentType, body) ==
  [status |-> status, contentType |-> contentType, body |-> body]
NoRequest == HttpRequest("", <<>>, "", NoHeader, Undefined, NoVal)
NoResponse == HttpResponse(0, NoHeader, Undefined)
\* what went over the wire in a forwarded call: the caller's request, the
\* request made downstream, its response, and the response to the caller
Wire(request, sent, received, returned) ==
  [request |-> request, sent |-> sent, received |-> received, returned |-> returned]
NoWire == Wire(NoRequest, NoRequest, NoResponse, NoResponse)

\* the step just taken, as its caller sees it: the operation, the status and
\* body of its response, whether it called the backend, the bearer credential
\* it presented, its argument, the backend's answer, the forwarded path and
\* the messages of a forwarded call
Event(op, status, body, called, cred, arg, ans) ==
  [op |-> op, status |-> status, body |-> body, called |-> called, cred |-> cred,
   arg |-> arg, ans |-> ans, path |-> <<>>, wire |-> NoWire]
Quiet(op) == Event(op, 0, "", FALSE, NoVal, NoVal, NoAnswer)

\* a request whose handler waits for the backend's answer, with what the
\* handler holds on to: the access token it presented and its clinic_slug
Request(op, access, slug) == [op |-> op, access |-> access, slug |-> slug]

\* the SupportSession of the page's context; null is NoSupport
SupportSession(token, clinicSlug, expiresAt) ==
  [token |-> token, clinicSlug |-> clinicSlug, expiresAt |-> expiresAt]
NoSupport == SupportSession(NoVal, NoVal, NoVal)

Init ==
  /\ jar = [k \in Keys |-> NoCookie]
  /\ now = 0
  /\ inflight = {}
  /\ last = Quiet("init")
  /\ support = NoSupport

\* ---- session/logout ----
\* faulty variant: the refresh token survives the logout
LogoutKeys_KeepsRefresh == <<"accessToken", "clinicSlug", "hqRole",
                             "supportToken", "supportClinicSlug", "supportExpiresAt">>
\* faulty variant: the support session survives the logout
LogoutKeys_SessionOnly == <<"accessToken", "refreshToken", "clinicSlug", "hqRole">>
LogoutKeys == <<"accessToken", "refreshToken", "clinicSlug", "hqRole",
                "supportToken", "supportClinicSlug", "supportExpiresAt">>
RECURSIVE DeleteAll(_, _, _)
DeleteAll(j, ks, i) == IF i > Len(ks) THEN j ELSE DeleteAll(DeleteCookie(j, ks[i]), ks, i + 1)

Logout ==
  /\ jar' = DeleteAll(jar, LogoutKeys, 1)
  /\ last' = Event("logout", 200, "ok", FALSE, NoVal, NoVal, NoAnswer)
  /\ UNCHANGED <<now, inflight>>

\* ---- session/select-clinic ----
\* faulty variant: the clinic is remembered for the lifetime of an access token
SelectClinicJar_AccessLifetime(j, slug, t) ==
  DeleteSupport(SetCookie(j, "clinicSlug", slug, t + AccessMinutes, t))
\* faulty variant: the support session survives the selection
SelectClinicJar_KeepsSupport(j, slug, t) ==
  SetCookie(j, "clinicSlug", slug, t + ClinicMinutes, t)
SelectClinicJar(j, slug, t) ==
  DeleteSupport(SetCookie(j, "clinicSlug", slug, t + ClinicMinutes, t))

SelectClinic(slug) ==
  /\ now <= MaxOpTime
  /\ IF ~Truthy(slug)
     THEN /\ last' = Event("select-clinic", 400, "INVALID_SLUG", FALSE, NoVal, slug, NoAnswer)
          /\ UNCHANGED jar
     ELSE /\ jar' = SelectClinicJar(jar, slug, now)
          /\ last' = Event("select-clinic", 200, "ok", FALSE, NoVal, slug, NoAnswer)
  /\ UNCHANGED <<now, inflight>>

\* ---- the passage of time: to the next instant at which a cookie or a
\* grant expires; the browser drops the cookies that have expired ----
ExpiryInstants == {jar[k].exp : k \in Keys} \cup
                  {jar["supportToken"].val.e, jar["supportExpiresAt"].val.e}
Tick ==
  /\ \E e \in ExpiryInstants :
       /\ e > now
       /\ \A f \in ExpiryInstants : f > now => e <= f
       /\ now' = e
  /\ jar' = [k \in Keys |-> IF jar[k].exp > now' \/ jar[k] = NoCookie THEN jar[k] ELSE Expired]
  /\ last' = Quiet("tick")
  /\ UNCHANGED inflight

\* ---- session/login ----
LoginAnswers ==
  {Answer("ok", 200, TRUE, AccessOf(u), RefreshOf(u),
          IF u = "hq" THEN Str("admin") ELSE Undefined, Undefined, Undefined) : u \in Users}
  \cup {Answer("ok", 200, TRUE, AccessOf("clinic"), Undefined, Undefined, Undefined, Undefined),
        Failure("ok", 401), Failure("ok", 200), Failure("netfail", 0), Failure("badjson", 200)}

\* faulty variant: the login forgets the selected clinic
LoginJar_ClearsClinic(j, a, t) ==
  LET j1 == SetCookie(j, "accessToken", a.access, t + AccessMinutes, t)
      j2 == SetCookie(j1, "refreshToken", a.refresh, t + RefreshMinutes, t)
      j3 == IF Truthy(a.hq_role)
            THEN SetCookie(j2, "hqRole", a.hq_role, t + RefreshMinutes, t)
            ELSE DeleteCookie(j2, "hqRole")
  IN DeleteCookie(DeleteSupport(j3), "clinicSlug")
\* faulty variant: the role of the previous identity is kept
LoginJar_KeepsRole(j, a, t) ==
  LET j1 == SetCookie(j, "accessToken", a.access, t + AccessMinutes, t)
      j2 == SetCookie(j1, "refreshToken", a.refresh, t + RefreshMinutes, t)
      j3 == IF Truthy(a.hq_role)
            THEN SetCookie(j2, "hqRole", a.hq_role, t + RefreshMinutes, t)
            ELSE j2
  IN DeleteSupport(j3)
\* the cookie writes of a login that passed the ok test
LoginJar(j, a, t) ==
  LET accessExpires == t + AccessMinutes
      refreshExpires == t + RefreshMinutes
      j1 == SetCookie(j, "accessToken", a.access, accessExpires, t)
      j2 == SetCookie(j1, "refreshToken", a.refresh, refreshExpires, t)
      j3 == IF Truthy(a.hq_role)
            THEN SetCookie(j2, "hqRole", a.hq_role, refreshExpires, t)
            ELSE DeleteCookie(j2, "hqRole")
  IN DeleteSupport(j3)

\* what the caller of a handler sees when the handler throws
Thrown(op, called, cred, arg, a) == Event(op, 500, "exception", called, cred, arg, a)
\* the handler returns the backend's payload with the backend's status
Relayed(op, cred, arg, a) ==
  Event(op, a.status, IF a.ok THEN "payload" ELSE "error", TRUE, cred, arg, a)

Login(a) ==
  /\ now <= MaxOpTime
  /\ IF a.transport # "ok"
     THEN /\ last' = Thrown("login", TRUE, NoVal, NoVal, a)
          /\ UNCHANGED jar
     ELSE IF ~HttpOk(a) \/ ~a.ok
     THEN /\ last' = Relayed("login", NoVal, NoVal, a)
          /\ UNCHANGED jar
     ELSE /\ jar' = LoginJar(jar, a, now)
          /\ last' = Event("login", 200, "ok", TRUE, NoVal, NoVal, a)
  /\ UNCHANGED <<now, inflight>>

\* ---- support/start ----
\* the backend grants a support token to headquarters staff only; the token is
\* valid until the expires_at of the answer, or for the default lifetime
StartGrants(access, t) ==
  {Answer("ok", 200, TRUE, Undefined, Undefined, Undefined,
          SupportOf(access, t + off), Instant(t + off)) : off \in ExpiresOffsets}
  \cup {Answer("ok", 200, TRUE, Undefined, Undefined, Undefined,
               SupportOf(access, t + SupportFallbackMinutes), Undefined),
        Answer("ok", 200, TRUE, Undefined, Undefined, Undefined, Undefined, Undefined)}
StartAnswers(access, t) ==
  (IF access.u = "hq" THEN StartGrants(access, t) ELSE {})
  \cup {Failure("ok", 403), Failure("ok", 200), Failure("netfail", 0), Failure("badjson", 200)}

\* faulty variant: the expires_at of the backend is ignored
ExpiresDate_Fallback(expiresAt, t) == t + SupportFallbackMinutes
\* new Date(expiresAt), or the fallback lifetime
ExpiresDate(expiresAt, t) ==
  IF Truthy(expiresAt) THEN expiresAt.e ELSE t + SupportFallbackMinutes

\* faulty variant: the cookies are written whatever the answer and the request hold
StartJar_Unguarded(j, a, clinic_slug, t) ==
  LET expiresDate == ExpiresDate(a.expires_at, t)
      j1 == SetCookie(j, "supportToken", a.support_token, expiresDate, t)
      j2 == SetCookie(j1, "supportClinicSlug", clinic_slug, expiresDate, t)
  IN IF Truthy(a.expires_at)
     THEN SetCookie(j2, "supportExpiresAt", a.expires_at, expiresDate, t)
     ELSE j2
\* faulty variant: the clinic of the grant is not recorded
StartJar_TokenOnly(j, a, clinic_slug, t) ==
  IF Truthy(a.support_token) /\ Truthy(clinic_slug)
  THEN SetCookie(j, "supportToken", a.support_token, ExpiresDate(a.expires_at, t), t)
  ELSE j
\* the cookie writes of a start that passed the ok test
StartJar(j, a, clinic_slug, t) ==
  LET supportToken == a.support_token
      expiresAt == a.expires_at
      expiresDate == ExpiresDate(expiresAt, t)
      j1 == SetCookie(j, "supportToken", supportToken, expiresDate, t)
      j2 == SetCookie(j1, "supportClinicSlug", clinic_slug, expiresDate, t)
      j3 == IF Truthy(expiresAt)
            THEN SetCookie(j2, "supportExpiresAt", expiresAt, expiresDate, t)
            ELSE j2
  IN IF Truthy(supportToken) /\ Truthy(clinic_slug) THEN j3 ELSE j

\* faulty variant: the backend is called without an access token
StartBegin_NoAccessCheck(clinic_slug) ==
  LET access == CookieValue(jar, "accessToken", now)
      r == Request("start", access, clinic_slug)
  IN /\ now <= MaxOpTime
     /\ Cardinality(inflight) < MaxInFlight
     /\ r \notin inflight
     /\ inflight' = inflight \cup {r}
     /\ last' = Event("start-request", 0, "", TRUE, access, clinic_slug, NoAnswer)
     /\ UNCHANGED <<jar, now>>
StartBegin(clinic_slug) ==
  /\ now <= MaxOpTime
  /\ IF ~HasCookie(jar, "accessToken", now)
     THEN /\ last' = Event("start", 401, "UNAUTHORIZED", FALSE, NoVal, clinic_slug, NoAnswer)
          /\ UNCHANGED inflight
     ELSE LET access == CookieValue(jar, "accessToken", now)
              r == Request("start", access, clinic_slug)
          IN /\ Cardinality(inflight) < MaxInFlight
             /\ r \notin inflight
             /\ inflight' = inflight \cup {r}
             /\ last' = Event("start-request", 0, "", TRUE, access, clinic_slug, NoAnswer)
  /\ UNCHANGED <<jar, now>>

StartEnd(r, a) ==
  /\ now <= MaxOpTime
  /\ r \in inflight /\ r.op = "start"
  /\ inflight' = inflight \ {r}
  /\ IF a.transport # "ok"
     THEN /\ last' = Thrown("start", TRUE, r.access, r.slug, a)
          /\ UNCHANGED jar
     ELSE IF ~HttpOk(a) \/ ~a.ok
     THEN /\ last' = Relayed("start", r.access, r.slug, a)
          /\ UNCHANGED jar
     ELSE /\ jar' = StartJar(jar, a, r.slug, now)
          /\ last' = Event("start", 200, "payload", TRUE, r.access, r.slug, a)
  /\ UNCHANGED now

\* ---- support/stop ----
StopAnswers ==
  {Answer("ok", 200, TRUE, Undefined, Undefined, Undefined, Undefined, Undefined),
   Failure("ok", 401), Failure("ok", 200), Failure("netfail", 0),
   Failure("badjson", 200), Failure("badjson", 502)}

StopBegin ==
  /\ IF ~HasCookie(jar, "accessToken", now) \/ ~HasCookie(jar, "supportToken", now)
     THEN /\ jar' = DeleteSupport(jar)
          /\ last' = Event("stop", 200, "ok", FALSE, NoVal, NoVal, NoAnswer)
          /\ UNCHANGED inflight
     ELSE LET access == CookieValue(jar, "accessToken", now)
              supportToken == CookieValue(jar, "supportToken", now)
              r == Request("stop", NoVal, NoVal)
          IN /\ Cardinality(inflight) < MaxInFlight
             /\ r \notin inflight
             /\ inflight' = inflight \cup {r}
             /\ last' = Event("stop-request", 0, "", TRUE, access, supportToken, NoAnswer)
             /\ UNCHANGED jar
  /\ UNCHANGED now

\* payload?.ok === false: a body that is not JSON reads as {}
StopFailed(a) == ~HttpOk(a) \/ (a.transport = "ok" /\ ~a.ok)

StopEnd(r, a) ==
  /\ r \in inflight /\ r.op = "stop"
  /\ inflight' = inflight \ {r}
  /\ IF a.transport = "netfail"
     THEN /\ last' = Thrown("stop", TRUE, NoVal, NoVal, a)
          /\ UNCHANGED jar
     ELSE /\ jar' = DeleteSupport(jar)
          /\ last' = IF StopFailed(a)
                     THEN Event("stop", a.status, IF a.transport = "ok" THEN "error" ELSE "empty",
                                TRUE, NoVal, NoVal, a)
                     ELSE Event("stop", 200, "ok", TRUE, NoVal, NoVal, a)
  /\ UNCHANGED now

\* ---- proxy/[...path]: the credential the forwarder presents ----
Paths == {<<"clinic", "acme", "appointments">>, <<"clinic", "other", "appointments">>,
          <<"clinic">>, <<"hq", "tenants">>}

\* segments[i], undefined beyond the end
Segment(segments, i) == IF i <= Len(segments) THEN Str(segments[i]) ELSE Undefined
\* supportClinic === clinicSlug: an absent cookie and a missing segment are both undefined
IsUndefined(v) == v.k \in {"none", "undefined"}
SameSlug(supportClinic, clinicSlug) ==
  IF IsUndefined(supportClinic) \/ IsUndefined(clinicSlug)
  THEN IsUndefined(supportClinic) /\ IsUndefined(clinicSlug)
  ELSE supportClinic = clinicSlug

\* faulty variant: the refresh token stands in for a missing access token
AuthToken_RefreshFallback(segments, j, t) ==
  LET isClinicPath == Segment(segments, 1) = Str("clinic")
      clinicSlug == IF isClinicPath THEN Segment(segments, 2) ELSE NoVal
      supportToken == CookieValue(j, "supportToken", t)
      supportClinic == CookieValue(j, "supportClinicSlug", t)
  IN IF isClinicPath /\ Truthy(supportToken) /\ SameSlug(supportClinic, clinicSlug)
     THEN supportToken
     ELSE IF HasCookie(j, "accessToken", t) THEN CookieValue(j, "accessToken", t)
     ELSE CookieValue(j, "refreshToken", t)
\* faulty variant: the support token is presented for any clinic
AuthToken_AnyClinic(segments, j, t) ==
  IF Segment(segments, 1) = Str("clinic") /\ Truthy(CookieValue(j, "supportToken", t))
  THEN CookieValue(j, "supportToken", t)
  ELSE CookieValue(j, "accessToken", t)
AuthToken(segments, j, t) ==
  LET isClinicPath == Segment(segments, 1) = Str("clinic")
      clinicSlug == IF isClinicPath THEN Segment(segments, 2) ELSE NoVal
      supportToken == CookieValue(j, "supportToken", t)
      supportClinic == CookieValue(j, "supportClinicSlug", t)
  IN IF isClinicPath /\ Truthy(supportToken) /\ SameSlug(supportClinic, clinicSlug)
     THEN supportToken
     ELSE CookieValue(j, "accessToken", t)

\* what callers send to the forwarder
ForwardRequests ==
  {HttpRequest("GET", <<>>, "?page=2", NoHeader, Undefined, NoVal),
   HttpRequest("POST", <<>>, "", Json, Str("{}"), NoVal),
   HttpRequest("POST", <<>>, "", JsonUtf8, Str("{}"), NoVal),
   HttpRequest("PUT", <<>>, "?x=1", FormUrlEncoded, Str("a=b"), NoVal),
   HttpRequest("DELETE", <<>>, "", NoHeader, Undefined, NoVal)}
\* what the backend answers to a forwarded request
ForwardResponses ==
  {HttpResponse(200, Json, Str("payload")),
   HttpResponse(200, JsonUtf8, Str("payload")),
   HttpResponse(404, Json, Str("error")),
   HttpResponse(200, NoHeader, Str("payload")),
   HttpResponse(204, NoHeader, EmptyString)}
\* the forwarded call followed where only the credential matters
PlainRequest == HttpRequest("POST", <<>>, "", Json, Str("{}"), NoVal)
PlainResponse == HttpResponse(200, Json, Str("payload"))

\* request.headers.get("content-type")?.includes("application/json")
IsJson(contentType) == \E i \in 1..Len(contentType) : contentType[i] = "application/json"
\* request.text()
RequestText(request) == IF IsUndefined(request.body) THEN EmptyString ELSE request.body
\* the fetch of the forwarder: its URL, method, headers and body
BackendRequest(segments, request, authToken) ==
  HttpRequest(request.method, segments, request.search,
              IF IsJson(request.contentType) THEN Json ELSE NoHeader,
              IF request.method \in {"GET", "HEAD"} THEN Undefined ELSE RequestText(request),
              authToken)

\* a status with which new Response(body, ...) rejects a body that is not
\* null (Fetch standard: null body status), the empty string included
NullBodyStatus == {101, 204, 205, 304}
\* new Response(payload, {status, headers}) of the forwarder
GatewayResponse(response) ==
  IF response.status \in NullBodyStatus
  THEN HttpResponse(500, NoHeader, Str("exception"))
  ELSE HttpResponse(response.status,
                    IF response.contentType = NoHeader THEN Json ELSE response.contentType,
                    response.body)

Forward(segments, request, response) ==
  LET authToken == AuthToken(segments, jar, now)
      unauthorized == HttpResponse(401, Json, Str("UNAUTHORIZED"))
      sent == BackendRequest(segments, request, authToken)
      returned == GatewayResponse(response)
  IN /\ last' = IF ~Truthy(authToken)
                THEN [Event("forward", 401, "UNAUTHORIZED", FALSE, NoVal, NoVal, NoAnswer)
                        EXCEPT !.path = segments,
                               !.wire = Wire(request, NoRequest, NoResponse, unauthorized)]
                ELSE [Event("forward", returned.status, returned.body.u, TRUE, authToken,
                            NoVal, NoAnswer)
                        EXCEPT !.path = segments,
                               !.wire = Wire(request, sent, response, returned)]
     /\ UNCHANGED <<jar, now, inflight>>

\* ---- session/me ----
MeAnswers ==
  {Answer("ok", 200, TRUE, Undefined, Undefined, Undefined, Undefined, Undefined),
   Failure("ok", 401)}
\* faulty variant: the backend is asked even without an access token
Me_NoCheck(a) ==
  LET access == CookieValue(jar, "accessToken", now)
  IN /\ last' = IF a.transport # "ok" THEN Thrown("me", TRUE, access, NoVal, a)
                ELSE Relayed("me", access, NoVal, a)
     /\ UNCHANGED <<jar, now, inflight>>
Me(a) ==
  LET access == CookieValue(jar, "accessToken", now)
  IN /\ last' = IF ~HasCookie(jar, "accessToken", now)
                THEN Event("me", 401, "UNAUTHORIZED", FALSE, NoVal, NoVal, NoAnswer)
                ELSE IF a.transport # "ok" THEN Thrown("me", TRUE, access, NoVal, a)
                ELSE Relayed("me", access, NoVal, a)
     /\ UNCHANGED <<jar, now, inflight>>

\* ---- middleware: the route guard ----
\* a pathname is the sequence of its characters
GuardPaths ==
  {<<"/">>,
   <<"/", "a", "p", "i", "/", "x">>,
   <<"/", "l", "o", "g", "i", "n">>,
   <<"/", "s", "e", "l", "e", "c", "t", "-", "c", "l", "i", "n", "i", "c">>,
   <<"/", "h", "q", "/", "t">>,
   <<"/", "h", "q", "x">>,
   <<"/", "c", "/", "a", "c", "m", "e", "/", "d">>,
   <<"/", "c", "/", "o", "t", "h", "e", "r">>}
\* the characters of a slug
SlugChars == [s \in Slugs |-> IF s = "acme" THEN <<"a", "c", "m", "e">>
                                           ELSE <<"o", "t", "h", "e", "r">>]

\* pathname.startsWith(prefix)
StartsWith(pathname, prefix) ==
  Len(pathname) >= Len(prefix) /\ SubSeq(pathname, 1, Len(prefix)) = prefix
\* pathname.match(clinicPattern): /^\/c\/([^/]+)(\/.*)?$/
ClinicMatch(pathname) ==
  StartsWith(pathname, <<"/", "c", "/">>) /\ Len(pathname) >= 4 /\ pathname[4] # "/"
\* clinicMatch[1]
ClinicMatchSlug(pathname) ==
  LET slashes == {i \in 4..Len(pathname) : pathname[i] = "/"}
      first == CHOOSE i \in slashes : \A k \in slashes : i <= k
  IN IF slashes = {} THEN SubSeq(pathname, 4, Len(pathname))
     ELSE SubSeq(pathname, 4, first - 1)

\* the decisions are "next" and the page redirected to
\* faulty variant: the login page is served to a signed-in caller
LoginPage_Open(j, t) == "next"
\* pathname.startsWith("/login")
LoginPage(j, t) == IF HasCookie(j, "accessToken", t) THEN "/select-clinic" ELSE "next"

\* faulty variant: the role is not looked at
HqPage_NoRole(j, t) == IF ~HasCookie(j, "accessToken", t) THEN "/login" ELSE "next"
\* pathname.startsWith("/hq")
HqPage(j, t) ==
  LET hqRole == CookieValue(j, "hqRole", t)
  IN IF ~HasCookie(j, "accessToken", t) THEN "/login"
     ELSE IF ~Truthy(hqRole) THEN "/login"
     ELSE "next"

\* faulty variant: the selected clinic is looked at before the access token
ClinicPage_SlugFirst(pathname, j, t) ==
  LET slug == ClinicMatchSlug(pathname)
      storedSlug == CookieValue(j, "clinicSlug", t)
  IN IF ~Truthy(storedSlug) \/ SlugChars[storedSlug.u] # slug THEN "/select-clinic"
     ELSE IF ~HasCookie(j, "accessToken", t) THEN "/login"
     ELSE "next"
\* faulty variant: any selected clinic opens every clinic
ClinicPage_AnySlug(pathname, j, t) ==
  IF ~HasCookie(j, "accessToken", t) THEN "/login"
  ELSE IF ~Truthy(CookieValue(j, "clinicSlug", t)) THEN "/select-clinic"
  ELSE "next"
\* pathname.match(clinicPattern) succeeded
ClinicPage(pathname, j, t) ==
  LET slug == ClinicMatchSlug(pathname)
      storedSlug == CookieValue(j, "clinicSlug", t)
  IN IF ~HasCookie(j, "accessToken", t) THEN "/login"
     ELSE IF ~Truthy(storedSlug) \/ SlugChars[storedSlug.u] # slug THEN "/select-clinic"
     ELSE "next"

Middleware(pathname, j, t) ==
  IF StartsWith(pathname, <<"/", "a", "p", "i", "/">>) THEN "next"
  ELSE IF StartsWith(pathname, <<"/", "l", "o", "g", "i", "n">>) THEN LoginPage(j, t)
  ELSE IF StartsWith(pathname, <<"/", "s", "e", "l", "e", "c", "t", "-", "c", "l", "i", "n", "i", "c">>)
  THEN (IF ~HasCookie(j, "accessToken", t) THEN "/login" ELSE "next")
  ELSE IF StartsWith(pathname, <<"/", "h", "q">>) THEN HqPage(j, t)
  ELSE IF ClinicMatch(pathname) THEN ClinicPage(pathname, j, t)
  ELSE "next"

\* faulty variant: a redirect signs the caller out
Guard_ClearsOnRedirect(pathname) ==
  /\ last' = [Event("guard", 0, Middleware(pathname, jar, now), FALSE, NoVal, NoVal, NoAnswer)
                EXCEPT !.path = pathname]
  /\ jar' = IF Middleware(pathname, jar, now) = "next" THEN jar ELSE DeleteAll(jar, LogoutKeys, 1)
  /\ UNCHANGED <<now, inflight>>
Guard(pathname) ==
  /\ last' = [Event("guard", 0, Middleware(pathname, jar, now), FALSE, NoVal, NoVal, NoAnswer)
                EXCEPT !.path = pathname]
  /\ UNCHANGED <<jar, now, inflight>>

SlugArgs == {Str(s) : s \in Slugs} \cup {EmptyString, Undefined}

\* the gateway; the context of the page is followed in SpecClient
Next ==
  \/ (\E a \in LoginAnswers : Login(a)) /\ UNCHANGED support
  \/ Logout /\ UNCHANGED support
  \/ (\E slug \in SlugArgs : SelectClinic(slug)) /\ UNCHANGED support
  \/ (\E slug \in SlugArgs \ {EmptyString} : StartBegin(slug)) /\ UNCHANGED support
  \/ (\E r \in inflight : \E a \in StartAnswers(r.access, now) : StartEnd(r, a))
       /\ UNCHANGED support
  \/ StopBegin /\ UNCHANGED support
  \/ (\E r \in inflight : \E a \in StopAnswers : StopEnd(r, a)) /\ UNCHANGED support
  \/ (\E segments \in Paths : Forward(segments, PlainRequest, PlainResponse))
       /\ UNCHANGED support
  \/ (\E a \in MeAnswers : Me(a)) /\ UNCHANGED support
  \/ (\E pathname \in GuardPaths : Guard(pathname)) /\ UNCHANGED support
  \/ Tick /\ UNCHANGED support

Spec == Init /\ [][Next]_vars

\* the messages of forwarded calls, for every request and every answer, in
\* the sessions that login and logout give
NextWire ==
  \/ (\E a \in LoginAnswers : Login(a)) /\ UNCHANGED support
  \/ Logout /\ UNCHANGED support
  \/ (\E segments \in Paths : \E request \in ForwardRequests :
        \E response \in ForwardResponses : Forward(segments, request, response))
       /\ UNCHANGED support
SpecWire == Init /\ [][NextWire]_vars

\* ---- the browser page: its support context ----
\* RootLayout: initialSupportSession, from the cookies of the page request
InitialSupportSession(j, t) ==
  LET supportToken == CookieValue(j, "supportToken", t)
      supportClinic == CookieValue(j, "supportClinicSlug", t)
      supportExpiresAt == CookieValue(j, "supportExpiresAt", t)
  IN IF Truthy(supportToken) /\ Truthy(supportClinic)
     THEN SupportSession(supportToken, supportClinic, supportExpiresAt)
     ELSE NoSupport
PageLoad ==
  /\ support' = InitialSupportSession(jar, now)
  /\ last' = Quiet("load")
  /\ UNCHANGED <<jar, now, inflight>>

\* startSupport: !response.ok || !payload.ok throws
StartReportsError(ev) == ~(ev.status >= 200 /\ ev.status <= 299) \/ ev.body # "payload"
\* the page of a tenant offers the start while it is not impersonating it
ClientStartBegin(slug) ==
  /\ support.clinicSlug # slug
  /\ StartBegin(slug)
  /\ UNCHANGED support
\* onSuccess: setSupport; onError leaves the context
ClientStartEnd(r, a) ==
  /\ StartEnd(r, a)
  /\ support' = IF StartReportsError(last') THEN support
                ELSE SupportSession(a.support_token, r.slug,
                                    IF IsUndefined(a.expires_at) THEN NoVal ELSE a.expires_at)

\* stopSession and stopSupport: !response.ok || payload?.ok === false throws
StopReportsError(ev) == ~(ev.status >= 200 /\ ev.status <= 299) \/ ev.body = "error"
\* clearSupport() on success only
AfterStop(ev, context) ==
  IF ev.op = "stop" /\ ~StopReportsError(ev) THEN NoSupport ELSE context
\* the banner and the page offer the stop while the context holds a session
ClientStopBegin ==
  /\ support # NoSupport
  /\ StopBegin
  /\ support' = AfterStop(last', support)
ClientStopEnd(r, a) ==
  /\ StopEnd(r, a)
  /\ support' = AfterStop(last', support)

NextClient ==
  \/ PageLoad
  \/ (\E a \in LoginAnswers : Login(a)) /\ UNCHANGED support
  \/ Logout /\ UNCHANGED support
  \/ Tick /\ UNCHANGED support
  \/ \E slug \in Slugs : ClientStartBegin(Str(slug))
  \/ \E r \in inflight : \E a \in StartAnswers(r.access, now) : ClientStartEnd(r, a)
  \/ ClientStopBegin
  \/ \E r \in inflight : \E a \in StopAnswers : ClientStopEnd(r, a)
SpecClient == Init /\ [][NextClient]_vars

\* ======================= the claims =======================
Absent(k) == ~HasCookie(jar, k, now)
NoSupportFields == \A k \in SupportKeys : Absent(k)

C1_UsesSupport(segments) ==
  /\ Len(segments) >= 2 /\ segments[1] = "clinic"
  /\ HasCookie(jar, "supportClinicSlug", now)
  /\ jar["supportClinicSlug"].val = Str(segments[2])
  /\ HasCookie(jar, "supportToken", now)
  /\ now < jar["supportToken"].val.e
C1_Credential(segments) ==
  IF C1_UsesSupport(segments) THEN jar["supportToken"].val
  ELSE IF HasCookie(jar, "accessToken", now) THEN jar["accessToken"].val
  ELSE NoVal
C2_GrantEndsAtExpiry ==
  /\ \A segments \in Paths :
       LET c == AuthToken(segments, jar, now)
       IN /\ c.k = "support" => now < c.e
          /\ jar["supportToken"] = Expired =>
               c = AuthToken(segments, DeleteSupport(jar), now)
  /\ last.op = "forward" /\ last.cred.k = "support" => now < last.cred.e
C2_Witness ==
  /\ last.op = "forward" /\ last.path = <<"clinic", "acme", "appointments">>
  /\ jar["supportToken"] = Expired /\ jar["supportClinicSlug"] = Expired
  /\ last.cred.k = "access"

\* C3: logout always succeeds, calls nothing downstream and leaves no field
\* of the session or of the support session in the store.
C3_LogoutClearsAll ==
  last.op = "logout" =>
    /\ \A k \in Keys : Absent(k) /\ jar[k] = NoCookie
    /\ last.status = 200 /\ last.body = "ok" /\ ~last.called
C3_Witness == last.op = "logout" /\ inflight # {} /\ now > 0

\* C4: a supportToken is stored only while an accessToken is stored.
C4_SupportNeedsAccess == HasCookie(jar, "supportToken", now) => HasCookie(jar, "accessToken", now)

\* C5: a start invoked while hqRole is absent fails with UNAUTHORIZED, without
\* a downstream call, and leaves the store unchanged.
C5_StartNeedsHqRole ==
  [][(last'.op = "start-request" \/ (last'.op = "start" /\ ~last'.called))
       /\ ~HasCookie(jar, "hqRole", now)
     => last'.op = "start" /\ last'.status = 401 /\ last'.body = "UNAUTHORIZED" /\ jar' = jar]_vars

\* C6: a supportToken is stored only while hqRole is stored.
C6_SupportNeedsHqRole == HasCookie(jar, "supportToken", now) => HasCookie(jar, "hqRole", now)

\* C7: a stop that called the backend leaves none of the support fields in the
\* store, whatever became of the call, and reports the backend's error and
\* status when the revoke failed.
C7_StopAlwaysClears ==
  last.op = "stop" /\ last.called =>
    /\ NoSupportFields
    /\ StopFailed(last.ans) => last.status = last.ans.status /\ last.body # "ok"

\* C8: a stop invoked without accessToken or without supportToken calls
\* nothing downstream, clears the three support fields and reports success;
\* a second stop in the resulting state does the same and changes nothing.
C8_TrivialStop ==
  [][(last'.op = "stop-request" \/ (last'.op = "stop" /\ ~last'.called))
       /\ (~HasCookie(jar, "accessToken", now) \/ ~HasCookie(jar, "supportToken", now))
     => /\ last'.op = "stop" /\ ~last'.called /\ last'.status = 200 /\ last'.body = "ok"
        /\ \A k \in SupportKeys : jar'[k] = NoCookie
        /\ ~HasCookie(jar', "accessToken", now') \/ ~HasCookie(jar', "supportToken", now')
        /\ DeleteSupport(jar') = jar']_vars
C8_Witness ==
  /\ last.op = "stop" /\ ~last.called /\ last.status = 200
  /\ HasCookie(jar, "accessToken", now) /\ NoSupportFields

\* C9: after a successful login the store holds the backend's access token
\* (for 30 minutes) and refresh token (for 7 days), the granted role or no
\* role, and no field of a support session.
C9_LoginSucceeded ==
  last.op = "login" /\ last.body = "ok" /\ Truthy(last.ans.access) /\ Truthy(last.ans.refresh)
C9_LoginInstalls ==
  C9_LoginSucceeded =>
    /\ jar["accessToken"] = [val |-> last.ans.access, exp |-> now + 30]
    /\ jar["refreshToken"] = [val |-> last.ans.refresh, exp |-> now + 7 * 24 * 60]
    /\ IF Truthy(last.ans.hq_role)
       THEN HasCookie(jar, "hqRole", now) /\ jar["hqRole"].val = last.ans.hq_role
       ELSE Absent("hqRole")
    /\ NoSupportFields
C9_Witness ==
  /\ C9_LoginSucceeded /\ last.ans.access = AccessOf("clinic") /\ now > 0
  /\ jar["accessToken"].val = AccessOf("clinic") /\ Absent("hqRole")

\* C10: a login that does not succeed (rejected, non-ok, malformed or
\* incomplete payload, backend unreachable) changes no field of the store and
\* reports an error.
C10_LoginAllOrNothing ==
  [][last'.op = "login"
       /\ ~(last'.ans.transport = "ok" /\ HttpOk(last'.ans) /\ last'.ans.ok
            /\ Truthy(last'.ans.access) /\ Truthy(last'.ans.refresh))
     => jar' = jar /\ last'.body # "ok"]_vars

\* C11, as stated: once a login and a start that read the previous access
\* token have both completed, a stored support token was granted to the
\* access token now stored.
C11_SupportGrantedToStoredAccess ==
  inflight = {} /\ HasCookie(jar, "supportToken", now) /\ HasCookie(jar, "accessToken", now)
    => jar["supportToken"].val.u = jar["accessToken"].val.u

\* the instant at which the fields installed by the start just completed expire
C12_Expiry ==
  IF Truthy(last.ans.expires_at) THEN last.ans.expires_at.e ELSE now + SupportFallbackMinutes
C12_Succeeded == last.op = "start" /\ last.status = 200 /\ last.body = "payload"
C13_StartFailureChangesNothing ==
  [][/\ (last'.op = "start" /\ last'.body # "payload") =>
          /\ jar' = jar
          /\ ~last'.called => last'.status = 401 /\ last'.body = "UNAUTHORIZED"
          /\ (last'.called /\ last'.ans.transport = "ok") =>
                /\ ~HttpOk(last'.ans) \/ ~last'.ans.ok
                /\ last'.status = last'.ans.status /\ last'.body = "error"
     /\ (last'.op \in {"start", "start-request"} /\ last'.cred = NoVal) =>
          /\ ~HasCookie(jar, "accessToken", now)
          /\ last'.op = "start" /\ ~last'.called /\ last'.status = 401
          /\ inflight' = inflight
     /\ (last'.op = "start-request" \/ (last'.op = "start" /\ ~last'.called)) =>
          (last'.op = "start" <=> ~HasCookie(jar, "accessToken", now))]_vars
C13_Witness ==
  /\ last.op = "start" /\ last.status = 403 /\ last.body = "error"
  /\ HasCookie(jar, "supportToken", now) /\ jar["supportToken"].val.e > now

\* C14: a selection with a non-empty slug sets clinicSlug to that slug,
\* expiring 24 hours later, and leaves the three support fields absent; a
\* selection with an empty or missing slug answers INVALID_SLUG and changes
\* nothing.
C14_SelectClinic ==
  [][last'.op = "select-clinic" =>
       IF Truthy(last'.arg)
       THEN /\ last'.status = 200
            /\ jar'["clinicSlug"] = [val |-> last'.arg, exp |-> now + 24 * 60]
            /\ \A k \in SupportKeys : ~HasCookie(jar', k, now)
       ELSE /\ last'.status = 400 /\ last'.body = "INVALID_SLUG"
            /\ jar' = jar]_vars
C14_Witness ==
  /\ last.op = "select-clinic" /\ last.status = 200
  /\ jar["clinicSlug"].val = Str("other") /\ jar["clinicSlug"].exp = now + 24 * 60
  /\ now > 0 /\ HasCookie(jar, "accessToken", now) /\ NoSupportFields

\* C15, as stated: no reachable state holds both a clinicSlug and a
\* supportToken.
C15_Both == HasCookie(jar, "clinicSlug", now) /\ HasCookie(jar, "supportToken", now)
C15_AsStated == ~C15_Both
\* C15, amended: a selection of a clinic ends the support session, and a
\* clinicSlug and a supportToken come to be stored together only by a start
\* that completes while a clinic is selected.
C15_BothOnlyByStart ==
  [][/\ (last'.op = "select-clinic" /\ last'.status = 200) => ~C15_Both'
     /\ (C15_Both' /\ ~C15_Both) =>
          last'.op = "start" /\ HasCookie(jar, "clinicSlug", now)]_vars
C15_Witness ==
  /\ C15_Both /\ last.op = "start" /\ last.body = "payload"
  /\ jar["supportClinicSlug"].val = jar["clinicSlug"].val

\* the rule of the route guard under which each pathname falls, and the
\* tenant segment of a clinic pathname
GuardRule(rule, slug, pathname) == [rule |-> rule, slug |-> slug, path |-> pathname]
GuardRules ==
  {GuardRule("other", "", <<"/">>),
   GuardRule("forwarder", "", <<"/", "a", "p", "i", "/", "x">>),
   GuardRule("login", "", <<"/", "l", "o", "g", "i", "n">>),
   GuardRule("select-clinic", "", <<"/", "s", "e", "l", "e", "c", "t", "-", "c", "l", "i", "n", "i", "c">>),
   GuardRule("hq", "", <<"/", "h", "q", "/", "t">>),
   GuardRule("hq", "", <<"/", "h", "q", "x">>),
   GuardRule("clinic", "acme", <<"/", "c", "/", "a", "c", "m", "e", "/", "d">>),
   GuardRule("clinic", "other", <<"/", "c", "/", "o", "t", "h", "e", "r">>)}
Guarded(rule) == {g \in GuardRules : last.op = "guard" /\ g.rule = rule /\ g.path = last.path}
Stored(k) == HasCookie(jar, k, now) /\ Truthy(jar[k].val)

\* C16: for a clinic pathname with tenant segment s the guard lets the
\* request through only when an accessToken is stored and clinicSlug is s; it
\* redirects to the login page when no accessToken is stored, and to the
\* clinic selection when one is stored and clinicSlug is absent or differs.
C16_TenantIsolation ==
  \A g \in Guarded("clinic") :
    /\ last.body = "next" <=> Stored("accessToken") /\ Stored("clinicSlug")
                                /\ jar["clinicSlug"].val = Str(g.slug)
    /\ last.body = "/login" <=> ~Stored("accessToken")
    /\ last.body \in {"next", "/login", "/select-clinic"}
C16_Witness ==
  /\ \E g \in Guarded("clinic") : g.slug = "other"
  /\ last.body = "/select-clinic"
  /\ Stored("accessToken") /\ jar["clinicSlug"].val = Str("acme")

\* C17: for a headquarters pathname the guard lets the request through only
\* when an accessToken and an hqRole are both stored, and redirects to the
\* login page otherwise.
C17_HqNeedsRole ==
  Guarded("hq") # {} =>
    last.body = (IF Stored("accessToken") /\ Stored("hqRole") THEN "next" ELSE "/login")
C17_Witness ==
  /\ Guarded("hq") # {} /\ last.body = "/login"
  /\ Stored("accessToken") /\ ~Stored("hqRole") /\ Stored("clinicSlug")

\* the decision of each rule taken alone
C18_Decision(g) ==
  CASE g.rule = "forwarder" -> "next"
    [] g.rule = "login" -> IF Stored("accessToken") THEN "/select-clinic" ELSE "next"
    [] g.rule = "select-clinic" -> IF Stored("accessToken") THEN "next" ELSE "/login"
    [] g.rule = "hq" -> IF Stored("accessToken") /\ Stored("hqRole") THEN "next" ELSE "/login"
    [] g.rule = "clinic" -> IF ~Stored("accessToken") THEN "/login"
                            ELSE IF Stored("clinicSlug") /\ jar["clinicSlug"].val = Str(g.slug)
                            THEN "next" ELSE "/select-clinic"
    [] OTHER -> "next"
\* C18: the decision of the guard is that of the first rule that matches the
\* pathname: forwarder pathnames pass; the login page redirects to the clinic
\* selection with an accessToken and passes without; the clinic selection
\* redirects to the login page without an accessToken and passes with one;
\* then the headquarters and clinic rules; every other pathname passes.
C18_FirstMatchingRule ==
  last.op = "guard" =>
    /\ \E g \in GuardRules : g.path = last.path
    /\ \A g \in GuardRules : g.path = last.path => last.body = C18_Decision(g)
C18_Witness ==
  /\ Guarded("login") # {} /\ last.body = "/select-clinic"
  /\ Stored("accessToken") /\ ~Stored("hqRole") /\ ~Stored("clinicSlug")

C20_AsStated == HasCookie(jar, "accessToken", now) <=> HasCookie(jar, "refreshToken", now)
\* C20, amended: the two tokens are set at the same instant and cleared
\* together, the accessToken for 30 minutes and the refreshToken for 7 days:
\* a stored accessToken comes with the refreshToken set with it, and a
\* refreshToken is stored without an accessToken only once that accessToken
\* has expired.
C20_SetAndClearedTogether ==
  /\ HasCookie(jar, "accessToken", now) =>
       /\ HasCookie(jar, "refreshToken", now)
       /\ jar["refreshToken"].exp - jar["accessToken"].exp = 7 * 24 * 60 - 30
  /\ (HasCookie(jar, "refreshToken", now) /\ ~HasCookie(jar, "accessToken", now)) =>
       jar["accessToken"] = Expired
C20_Witness ==
  /\ HasCookie(jar, "refreshToken", now) /\ jar["accessToken"] = Expired
  /\ last.op = "tick" /\ now = 30 /\ jar["refreshToken"].exp = 7 * 24 * 60

\* C21, as stated: while a support session is stored, supportClinicSlug and
\* the supportToken paired with it change only by a stop, a selection of a
\* clinic, a login, a logout or an expiry.
C21_ScopeImmutable ==
  [][(HasCookie(jar, "supportToken", now)
        /\ last'.op \notin {"stop", "select-clinic", "login", "logout", "tick"}) =>
       /\ jar'["supportClinicSlug"] = jar["supportClinicSlug"]
       /\ jar'["supportToken"] = jar["supportToken"]]_vars

\* no stored credential serves the forwarded path
C22_NoCredential(segments) ==
  /\ ~Stored("accessToken")
  /\ ~(/\ Stored("supportToken") /\ Stored("supportClinicSlug")
        /\ Len(segments) >= 2 /\ segments[1] = "clinic"
        /\ jar["supportClinicSlug"].val = Str(segments[2]))
C22_Refused == last.status = 401 /\ last.body = "UNAUTHORIZED" /\ ~last.called
\* C22: a forwarded call for which neither a usable supportToken nor an
\* accessToken is stored, and a session-info call without an accessToken,
\* answer 401 UNAUTHORIZED without any request to the backend.
C22_UnauthorizedIsLocal ==
  /\ (last.op = "forward" /\ C22_NoCredential(last.path)) =>
       C22_Refused /\ last.wire.sent = NoRequest /\ last.wire.returned.status = 401
  /\ (last.op = "me" /\ ~Stored("accessToken")) => C22_Refused
  /\ (last.op \in {"forward", "me"} /\ last.called) => Truthy(last.cred)
C22_Witness ==
  /\ last.op = "me" /\ C22_Refused
  /\ jar["accessToken"] = Expired /\ Stored("refreshToken") /\ Stored("clinicSlug")

\* C23, as stated: the forwarder returns to the caller the status, the body
\* and the content type of the backend's response, for every response.
C23_ResponseUnchanged ==
  (last.op = "forward" /\ last.called) => last.wire.returned = last.wire.received

\* the bytes of a body; a request without a body has none
C24_Bytes(body) == IF body = Undefined THEN EmptyString ELSE body
\* C24, as stated: the request made to the backend has the path and the query
\* string of the original, the same method, the original body for every
\* method but GET, and the content type the caller declared whenever the
\* caller declared one.
C24_RequestUnchanged ==
  (last.op = "forward" /\ last.called) =>
    LET request == last.wire.request
        sent == last.wire.sent
    IN /\ sent.path = last.path /\ sent.search = request.search
       /\ sent.method = request.method
       /\ request.method # "GET" => C24_Bytes(sent.body) = C24_Bytes(request.body)
       /\ request.contentType # NoHeader => sent.contentType = request.contentType

\* the requests the gateway makes to the backend with a stored credential
C25_Sends == last.called /\ last.op \in {"forward", "me", "start-request", "stop-request"}
\* C25: no request to the backend carries the refreshToken: the bearer
\* credential is the accessToken or the supportToken, and the body of a stop
\* holds the supportToken.
C25_RefreshStaysHome ==
  C25_Sends =>
    /\ last.cred.k \in {"access", "support"} /\ last.arg.k # "refresh"
    /\ last.op # "forward" => last.cred.k = "access"
    /\ last.op = "forward" => last.wire.sent.bearer = last.cred
    /\ last.op = "stop-request" => last.arg.k = "support"
    /\ Stored("refreshToken") => last.cred # jar["refreshToken"].val
C25_Witness ==
  /\ last.op = "stop-request" /\ Stored("refreshToken")
  /\ last.cred = jar["accessToken"].val /\ last.arg = jar["supportToken"].val

\* the stores that differ from the present one in clinicSlug only
C26_Variants ==
  {[jar EXCEPT !["clinicSlug"] = c] :
     c \in {NoCookie} \cup {[val |-> Str(s), exp |-> now + 24 * 60] : s \in Slugs}}
\* C26: without an accessToken the clinicSlug decides nothing: the guard
\* gives the same decision for every pathname, and the forwarder chooses the
\* same credential or fails alike for every path, whatever clinicSlug holds.
C26_SlugAloneIsMeaningless ==
  ~HasCookie(jar, "accessToken", now) =>
    \A j \in C26_Variants :
      /\ \A pathname \in GuardPaths : Middleware(pathname, j, now) = Middleware(pathname, jar, now)
      /\ \A segments \in Paths : AuthToken(segments, j, now) = AuthToken(segments, jar, now)
      /\ last.op = "guard" => last.body = Middleware(last.path, j, now)
      /\ last.op = "forward" => last.cred = AuthToken(last.path, j, now)
C26_Witness ==
  /\ ~HasCookie(jar, "accessToken", now) /\ jar["clinicSlug"].val = Str("acme")
  /\ Guarded("clinic") # {} /\ last.body = "/login"
  /\ \E g \in Guarded("clinic") : g.slug = "acme"

\* the clinic pathnames the guard lets through
C27_Allowed(j) == {g \in GuardRules : g.rule = "clinic" /\ Middleware(g.path, j, now) = "next"}
\* C27: a successful login keeps the clinicSlug that was stored, and the
\* clinic pathnames the guard let through before it are let through after it.
C27_LoginKeepsClinic ==
  [][(last'.op = "login" /\ last'.status = 200 /\ last'.body = "ok") =>
       /\ jar'["clinicSlug"] = jar["clinicSlug"]
       /\ C27_Allowed(jar) \subseteq C27_Allowed(jar')]_vars
\* a login as a clinic user while a start of headquarters staff is waiting,
\* with the clinic selected before still opening its pages
C27_Witness ==
  /\ last.op = "login" /\ last.body = "ok" /\ last.ans.access.u = "clinic"
  /\ \E r \in inflight : r.access.u = "hq"
  /\ jar["clinicSlug"].val = Str("acme") /\ jar["clinicSlug"].exp < now + 24 * 60
  /\ \E g \in C27_Allowed(jar) : g.slug = "acme"

\* C28, as stated: in every reachable state supportToken is stored if and
\* only if supportClinicSlug is, and supportExpiresAt is stored only with a
\* supportToken of the same grant.
C28_WellFormed ==
  /\ HasCookie(jar, "supportToken", now) <=> HasCookie(jar, "supportClinicSlug", now)
  /\ HasCookie(jar, "supportExpiresAt", now) =>
       /\ HasCookie(jar, "supportToken", now)
       /\ jar["supportExpiresAt"].val.e = jar["supportToken"].val.e

\* the backend answered the start with a success
C29_Granted == last.op = "start" /\ last.called /\ HttpOk(last.ans) /\ last.ans.ok
\* C29: a start that the backend answered with a success writes to the store
\* only when the answer carries a support token and the request a non-empty
\* clinic_slug; when either is missing the store is left as it was, and the
\* start still answers 200 with the payload of the backend.
C29_WritesOnlyWithTokenAndSlug ==
  [][C29_Granted' =>
       /\ last'.status = 200 /\ last'.body = "payload"
       /\ (~Truthy(last'.ans.support_token) \/ ~Truthy(last'.arg)) => jar' = jar
       /\ jar' # jar => Truthy(last'.ans.support_token) /\ Truthy(last'.arg)]_vars
C29_Witness ==
  /\ C29_Granted /\ last.status = 200 /\ last.body = "payload"
  /\ Truthy(last.ans.support_token) /\ ~Truthy(last.arg)
  /\ NoSupportFields /\ Stored("accessToken")

\* the stop call reports an error: a status that is not ok, or ok: false
C30_ReportsError == ~(last.status >= 200 /\ last.status <= 299) \/ last.body = "error"
\* C30, as stated: when a stop reports an error the context of the page keeps
\* its support session although the gateway has cleared supportToken,
\* supportClinicSlug and supportExpiresAt; the context is cleared only when
\* the stop reports success.
C30_ContextFollowsStop ==
  [][last'.op = "stop" =>
       IF C30_ReportsError'
       THEN /\ support' = support
            /\ \A k \in SupportKeys : ~HasCookie(jar', k, now)
       ELSE support' = NoSupport]_vars
====
